---- MODULE Spec2Model ----
EXTENDS Integers, Sequences, FiniteSets, TLC

(***************************************************************************)
(* Notebook 7.2, "Bayesian classifier based on normal distribution", as a  *)
(* kernel session.  The state is the kernel's global names:                *)
(*   hu_files                  the arrays in ./data/hu_*.npy               *)
(*   bound                     the global names bound so far               *)
(*   train, covs, means        train_*, cov_*, mean_* of Assignment 1a     *)
(*   g_f, g_mu, g_cov, g_prior, g_d                                        *)
(*                             f, mu, cov, prior, d of the test cell       *)
(*   last                      the latest classification call: function,   *)
(*                             features, whether the models and the test   *)
(*                             cell's names were bound, and what it        *)
(*                             printed or raised                           *)
(*   pinned                    an earlier call kept for comparison         *)
(*   calls                     the frames of the classify_image calls in   *)
(*                             progress, one per call site: the line       *)
(*                             reached, the local names, what was printed  *)
(* and those of the kernel of the appendix on color spaces:                *)
(*   cv2                       the OpenCV build imported                   *)
(*   image_bgr, image_YCrCb, image_gray                                    *)
(*                             the image read and its two conversions      *)
(***************************************************************************)
VARIABLES hu_files, bound, train, covs, means, g_f, g_mu, g_cov, g_prior, g_d, last, pinned,
          calls, cv2, image_bgr, image_YCrCb, image_gray
vars == <<hu_files, bound, train, covs, means, g_f, g_mu, g_cov, g_prior, g_d, last, pinned,
          calls, cv2, image_bgr, image_YCrCb, image_gray>>
appendix == <<cv2, image_bgr, image_YCrCb, image_gray>>
chapter7 == <<hu_files, bound, train, covs, means, g_f, g_mu, g_cov, g_prior, g_d, last, pinned,
              calls>>

(***************************************************************************)
(* Exact rationals <<n, d>> (d > 0, lowest terms) carry the linear algebra *)
(* of the notebook; the logarithm and the exponential are evaluated in     *)
(* decimal fixed point, as the float code evaluates them by approximation. *)
(***************************************************************************)

RECURSIVE Gcd(_, _)
Gcd(a, b) == IF b = 0 THEN a ELSE Gcd(b, a % b)

Abs(a) == IF a < 0 THEN -a ELSE a

Rat(n, d) ==
    LET g == Gcd(Abs(n), Abs(d))
        s == IF d < 0 THEN -1 ELSE 1
    IN  <<(s * n) \div g, (s * d) \div g>>

RInt(n) == <<n, 1>>
RAdd(p, q) == Rat(p[1] * q[2] + q[1] * p[2], p[2] * q[2])
RSub(p, q) == Rat(p[1] * q[2] - q[1] * p[2], p[2] * q[2])
RMul(p, q) == Rat(p[1] * q[1], p[2] * q[2])
RDiv(p, q) == Rat(p[1] * q[2], p[2] * q[1])
RNeg(p) == <<-p[1], p[2]>>
RLess(p, q) == p[1] * q[2] < q[1] * p[2]

(***************************************************************************)
(* Fixed point: a magnitude is a big-endian sequence of NL limbs in base   *)
(* Base, the first the integer part, the others the fraction.              *)
(***************************************************************************)
Base == 10 * 10 * 10
FracLimbs == 2 + 3
NL == 1 + FracLimbs

MagZero == [i \in 1..NL |-> 0]

RECURSIVE MagAddFrom(_, _, _, _)
MagAddFrom(a, b, i, carry) ==
    LET s == a[i] + b[i] + carry
    IN  IF i = 1 THEN <<s>>
        ELSE Append(MagAddFrom(a, b, i - 1, s \div Base), s % Base)
MagAdd(a, b) == MagAddFrom(a, b, NL, 0)

RECURSIVE MagSubFrom(_, _, _, _)
MagSubFrom(a, b, i, borrow) ==
    LET s == a[i] - b[i] - borrow
    IN  IF i = 1 THEN <<s>>
        ELSE IF s < 0 THEN Append(MagSubFrom(a, b, i - 1, 1), s + Base)
        ELSE Append(MagSubFrom(a, b, i - 1, 0), s)
MagSub(a, b) == MagSubFrom(a, b, NL, 0)

MagLess(a, b) ==
    \E i \in 1..NL : a[i] < b[i] /\ \A j \in 1..(i - 1) : a[j] = b[j]

RECURSIVE MagMulFrom(_, _, _, _)
MagMulFrom(a, m, i, carry) ==
    LET p == a[i] * m + carry
    IN  IF i = 1 THEN <<p>>
        ELSE Append(MagMulFrom(a, m, i - 1, p \div Base), p % Base)
MagMulSmall(a, m) == MagMulFrom(a, m, NL, 0)

RECURSIVE MagDivFrom(_, _, _, _)
MagDivFrom(a, dv, i, rem) ==
    LET cur == rem * Base + a[i]
    IN  IF i = NL THEN <<cur \div dv>>
        ELSE <<cur \div dv>> \o MagDivFrom(a, dv, i + 1, cur % dv)
MagDivSmall(a, dv) == MagDivFrom(a, dv, 1, 0)

MagOfInt(n) == [i \in 1..NL |-> IF i = 1 THEN n ELSE 0]
MagOfRat(n, dv) == MagDivSmall(MagOfInt(n), dv)

Fix(neg, mag) == [neg |-> neg /\ mag # MagZero, mag |-> mag]
FZero == Fix(FALSE, MagZero)
(* nan: every arithmetic operation on it gives nan, every comparison with  *)
(* it, equality included, is false                                         *)
FNaN == [neg |-> FALSE, mag |-> <<>>]
FNeg(a) == IF a = FNaN THEN FNaN ELSE Fix(~a.neg, a.mag)
FAdd(a, b) ==
    IF a = FNaN \/ b = FNaN THEN FNaN
    ELSE IF a.neg = b.neg THEN Fix(a.neg, MagAdd(a.mag, b.mag))
    ELSE IF MagLess(a.mag, b.mag) THEN Fix(b.neg, MagSub(b.mag, a.mag))
    ELSE Fix(a.neg, MagSub(a.mag, b.mag))
FSub(a, b) == FAdd(a, FNeg(b))
FLess(a, b) ==
    IF a = FNaN \/ b = FNaN THEN FALSE
    ELSE IF a.neg # b.neg THEN a.neg
    ELSE IF a.neg THEN MagLess(b.mag, a.mag)
    ELSE MagLess(a.mag, b.mag)
FEq(a, b) == a # FNaN /\ b # FNaN /\ a = b
FHalf(a) == IF a = FNaN THEN FNaN ELSE Fix(a.neg, MagDivSmall(a.mag, 2))
FOfRat(q) == Fix(q[1] < 0, MagOfRat(Abs(q[1]), q[2]))
FMulInt(a, m) == Fix(a.neg # (m < 0), MagMulSmall(a.mag, Abs(m)))

(***************************************************************************)
(* np.log of a positive rational a/b.  For b <= 2a <= 4b it is the series  *)
(* 2 * sum z^(2k+1)/(2k+1), z = (a-b)/(a+b), summed until a term no longer *)
(* changes the sum; other arguments are first halved or doubled into that  *)
(* range, each step adding or subtracting ln 2.                            *)
(***************************************************************************)
RECURSIVE LnTerms(_, _, _, _, _)
LnTerms(pow, p, q, k, acc) ==
    LET sum == MagAdd(acc, MagDivSmall(pow, 2 * k + 1))
    IN  IF sum = acc THEN acc
        ELSE LnTerms(MagDivSmall(MagMulSmall(MagDivSmall(MagMulSmall(pow, p), q), p), q),
                     p, q, k + 1, sum)
LnSeries(a, b) ==
    LET p == Abs(a - b)
        q == a + b
    IN  Fix(a < b, MagMulSmall(LnTerms(MagOfRat(p, q), p, q, 0, MagZero), 2))

Ln2 == LnSeries(2, 1)

RECURSIVE LnReduce(_, _, _)
LnReduce(a, b, k) ==
    IF a > 2 * b THEN LnReduce(a, 2 * b, k + 1)
    ELSE IF b > 2 * a THEN LnReduce(2 * a, b, k - 1)
    ELSE FAdd(LnSeries(a, b), FMulInt(Ln2, k))

(* The product of two magnitudes, rounded down to the limbs kept; the   *)
(* columns below the last limb are summed for their carry.             *)
RECURSIVE MagCarryFrom(_, _, _)
MagCarryFrom(c, i, carry) ==
    LET s == c[i] + carry
    IN  IF i = 1 THEN <<s>>
        ELSE Append(MagCarryFrom(c, i - 1, s \div Base), s % Base)
RECURSIVE ConvFrom(_, _, _, _)
ConvFrom(a, b, k, i) ==
    IF i = 0 THEN 0
    ELSE (IF k + 1 - i <= NL THEN a[i] * b[k + 1 - i] ELSE 0) + ConvFrom(a, b, k, i - 1)
MagMul(a, b) ==
    LET W == 2 * NL - 1
        c == [k \in 1..W |-> ConvFrom(a, b, k, IF k < NL THEN k ELSE NL)]
    IN  SubSeq(MagCarryFrom(c, W, 0), 1, NL)

(***************************************************************************)
(* exp(-y) for a magnitude y >= 0: the argument is halved until it is      *)
(* below one, the series 1 - y + y^2/2! - ... is summed, and the result is *)
(* squared once per halving.                                               *)
(***************************************************************************)
RECURSIVE ExpTerms(_, _, _, _)
ExpTerms(term, y, k, acc) ==
    LET t == MagDivSmall(MagMul(term, y), k)
        sum == IF k % 2 = 1 THEN MagSub(acc, t) ELSE MagAdd(acc, t)
    IN  IF sum = acc THEN acc ELSE ExpTerms(t, y, k + 1, sum)
RECURSIVE ExpSquare(_, _)
ExpSquare(v, k) ==
    IF k = 0 THEN v
    ELSE LET w == MagMul(v, v)
         IN  IF w = MagZero THEN w ELSE ExpSquare(w, k - 1)
RECURSIVE ExpReduce(_, _)
ExpReduce(y, k) ==
    IF y[1] >= 1 THEN ExpReduce(MagDivSmall(y, 2), k + 1)
    ELSE ExpSquare(ExpTerms(MagOfInt(1), y, 1, MagOfInt(1)), k)
ExpNegMag(y) == ExpReduce(y, 0)


(***************************************************************************)
(* Vectors are pairs of rationals, matrices pairs of rows (n = 2, the      *)
(* first two Hu moments).                                                  *)
(***************************************************************************)
Vec(a, b) == <<RInt(a), RInt(b)>>
VSub(u, v) == <<RSub(u[1], v[1]), RSub(u[2], v[2])>>
Dot(u, v) == RAdd(RMul(u[1], v[1]), RMul(u[2], v[2]))
MatVec(m, v) == <<Dot(m[1], v), Dot(m[2], v)>>

(* nan as a rational, and the covariance np.cov gives without degrees of   *)
(* freedom                                                                 *)
RNaN == <<0, 0>>
NaNMat == << <<RNaN, RNaN>>, <<RNaN, RNaN>> >>

(* A call's outcome: the value returned, or the exception raised *)
Returned(v) == [err |-> "none", val |-> v]
Raised(e, v) == [err |-> e, val |-> v]

(***************************************************************************)
(* Assignment 1a: the training arrays, one vector per image, and their     *)
(* sample mean and covariance.                                             *)
(***************************************************************************)
RECURSIVE RSumFrom(_, _)
RSumFrom(s, i) == IF i = 0 THEN RInt(0) ELSE RAdd(RSumFrom(s, i - 1), s[i])
RSum(s) == RSumFrom(s, Len(s))

np_mean(a) ==
    LET N == Len(a)
    IN  <<RDiv(RSum([i \in 1..N |-> a[i][1]]), RInt(N)),
          RDiv(RSum([i \in 1..N |-> a[i][2]]), RInt(N))>>

(* np.cov(m): rows are variables, bias=False, ddof=None: the divisor is     *)
(* N - 1; when it is not positive numpy warns ("Degrees of freedom <= 0"), *)
(* sets it to 0.0 and the products 0 * inf give nan in every entry         *)
ddof == 1
(* the divisor is N *)
np_cov_biased(m) ==
    LET N == Len(m)
        avg == np_mean(m)
        X == [i \in 1..N |-> VSub(m[i], avg)]
        fact == RInt(N)
        c(i1, i2) == RDiv(RSum([i \in 1..N |-> RMul(X[i][i1], X[i][i2])]), fact)
    IN  IF N - ddof <= 0 THEN NaNMat
        ELSE << <<c(1, 1), c(1, 2)>>, <<c(2, 1), c(2, 2)>> >>

np_cov(m) ==
    LET N == Len(m)
        avg == np_mean(m)
        X == [i \in 1..N |-> VSub(m[i], avg)]
        fact == RInt(N - ddof)
        c(i1, i2) == RDiv(RSum([i \in 1..N |-> RMul(X[i][i1], X[i][i2])]), fact)
    IN  IF N - ddof <= 0 THEN NaNMat
        ELSE << <<c(1, 1), c(1, 2)>>, <<c(2, 1), c(2, 2)>> >>

(***************************************************************************)
(* The training arrays of the sessions explored (one vector of the first   *)
(* two Hu moments per image) and the feature vectors classified.           *)
(*   SqA, SqB, SqC   mean (1,1), (3,1), (3,5); covariance (4/3) I          *)
(*   Line            two images: covariance [[2,2],[2,2]], singular        *)
(*   Wide            mean (0,1); covariance [[4/3,-40],[-40,2400]]         *)
(*   Thin            two images: covariance [[2,98],[98,4802]], singular   *)
(*   One             one image: covariance nan                             *)
(***************************************************************************)
SqA == <<Vec(0, 0), Vec(0, 2), Vec(2, 0), Vec(2, 2)>>
SqB == <<Vec(2, 0), Vec(2, 2), Vec(4, 0), Vec(4, 2)>>
SqC == <<Vec(2, 4), Vec(2, 6), Vec(4, 4), Vec(4, 6)>>
Line == <<Vec(0, 0), Vec(2, 2)>>
Wide == <<Vec(-1, 1), Vec(1, 1), Vec(1, -59), Vec(-1, 61)>>
Thin == <<Vec(0, 0), Vec(2, 98)>>
One == <<Vec(1, 1)>>
TrainingSets == {SqA, SqB, SqC, Line, Wide}

GridMax == 1
Grid == {Vec(a, b) : a \in 0..GridMax, b \in {0, 1}}

(* np.log, its values kept for the arguments the sessions pass most; at 0  *)
(* numpy answers -inf, below every finite value, and nan at a negative     *)
(* number or at nan.  The logarithm of a positive determinant of the size  *)
(* of the rounding error is left undefined.                                *)
LogKept ==
    {Rat(1, 3), Rat(1, 2), Rat(27, 50), Rat(16, 9), Rat(1600, 1), Rat(1, 1), Rat(1, 10)}
LogTable == [q \in LogKept |-> LnReduce(q[1], q[2], 0)]
NonFinite == Fix(TRUE, MagOfInt(Base * Base))
np_log(q) ==
    IF q[2] = 0 THEN (CASE q[1] <= 0 -> FNaN)
    ELSE IF q[1] < 0 THEN FNaN
    ELSE IF q[1] = 0 THEN NonFinite
    ELSE IF q \in LogKept THEN LogTable[q] ELSE LnReduce(q[1], q[2], 0)

(***************************************************************************)
(* np.linalg.inv and np.linalg.det factorise the matrix in binary64 by     *)
(* Gaussian elimination with partial pivoting (LAPACK getrf); a matrix is  *)
(* reported singular only when a pivot is exactly 0.0.  A positive float   *)
(* is <<bits, e>>: its binary digits, the first of them 1, and the weight  *)
(* 2^e of that first digit.  A value is computed once by choosing it from  *)
(* the set that holds it alone.                                            *)
(***************************************************************************)
Precision == 50 + 3

RECURSIVE BinOf(_)
BinOf(n) == IF n = 0 THEN <<>> ELSE Append(BinOf(n \div 2), n % 2)

RECURSIVE DivBits(_, _, _, _)
(* k more binary digits of r/dv (r < dv), then whether a remainder is left *)
DivBits(r, dv, k, acc) ==
    IF k = 0 THEN <<acc, r # 0>>
    ELSE CHOOSE q \in {DivBits(2 * r - digit * dv, dv, k - 1, more) :
                         digit \in {IF 2 * r >= dv THEN 1 ELSE 0},
                         more \in {Append(acc, IF 2 * r >= dv THEN 1 ELSE 0)}} : TRUE

RECURSIVE Quotient(_, _, _)
(* n/dv to Precision + 1 digits: <<bits, e, sticky>> *)
Quotient(n, dv, e) ==
    IF n >= 2 * dv THEN Quotient(n, 2 * dv, e + 1)
    ELSE IF n < dv THEN Quotient(2 * n, dv, e - 1)
    ELSE CHOOSE r \in {<<q[1], e, q[2]>> : q \in {DivBits(n - dv, dv, Precision, <<1>>)}} : TRUE

(* round to nearest, ties to even *)
Rounded(bits, e, sticky) ==
    LET b(i) == IF i <= Len(bits) THEN bits[i] ELSE 0
        rest == sticky \/ \E i \in (Precision + 2)..Len(bits) : bits[i] = 1
        up == b(Precision + 1) = 1 /\ (rest \/ b(Precision) = 1)
        zeros == {i \in 1..Precision : b(i) = 0}
    IN  IF ~up THEN <<[i \in 1..Precision |-> b(i)], e>>
        ELSE IF zeros = {} THEN <<[i \in 1..Precision |-> IF i = 1 THEN 1 ELSE 0], e + 1>>
        ELSE CHOOSE r \in {<<[i \in 1..Precision |->
                                 IF i < j THEN b(i) ELSE IF i = j THEN 1 ELSE 0], e>> :
                             j \in {i \in zeros : \A i2 \in zeros : i2 <= i}} : TRUE
RoundBits(x) == CHOOSE r \in {Rounded(v[1], v[2], v[3]) : v \in {x}} : TRUE

RECURSIVE TimesFrom(_, _, _, _, _)
TimesFrom(bits, k, i, carry, acc) ==
    IF i = 0 THEN BinOf(carry) \o acc
    ELSE CHOOSE p \in {TimesFrom(bits, k, i - 1, t \div 2, more) :
                         t \in {bits[i] * k + carry},
                         more \in {<<(bits[i] * k + carry) % 2>> \o acc}} : TRUE
(* the exact product of a float and a positive integer *)
Times(x, k) ==
    CHOOSE r \in {<<p, x[2] + Len(p) - Len(x[1])>> :
                    p \in {TimesFrom(x[1], k, Len(x[1]), 0, <<>>)}} : TRUE

FlDiv(n, dv) == RoundBits(Quotient(n, dv, 0))
FlTimes(x, k) == CHOOSE r \in {RoundBits(<<p[1], p[2], FALSE>>) : p \in {Times(x, k)}} : TRUE

(* -1, 0, 1 as x is below, equal to or above the positive integer n *)
CompareInt(x, n) ==
    LET nb == BinOf(n)
        L == IF Len(nb) > Len(x[1]) THEN Len(nb) ELSE Len(x[1])
        xi(i) == IF i <= Len(x[1]) THEN x[1][i] ELSE 0
        ni(i) == IF i <= Len(nb) THEN nb[i] ELSE 0
        diff == {i \in 1..L : xi(i) # ni(i)}
        first == CHOOSE i \in diff : \A i2 \in diff : i <= i2
    IN  IF x[2] # Len(nb) - 1 THEN (IF x[2] < Len(nb) - 1 THEN -1 ELSE 1)
        ELSE IF diff = {} THEN 0
        ELSE IF xi(first) < ni(first) THEN -1 ELSE 1

(***************************************************************************)
(* The second pivot u = d - m*q of [[p, q], [c, d]] after the row          *)
(* exchange, m = c/p, in the four ways a BLAS build computes it: m by a    *)
(* division or by the reciprocal of the pivot, the update by a rounded     *)
(* product and a subtraction or by one fused multiply-add.                 *)
(***************************************************************************)
Builds == {<<mode, fused>> : mode \in {"divide", "reciprocal"}, fused \in BOOLEAN}
Sign(n) == IF n < 0 THEN -1 ELSE IF n > 0 THEN 1 ELSE 0

Multiplier(build, p, c) ==
    IF build[1] = "divide" THEN FlDiv(Abs(c), Abs(p))
    ELSE CHOOSE m \in {FlTimes(r, Abs(c)) : r \in {FlDiv(1, Abs(p))}} : TRUE
SecondPivotSign(build, p, q, c, d) ==
    LET s == Sign(c) * Sign(p) * Sign(q)
    IN  IF s = 0 THEN Sign(d)
        ELSE IF d = 0 THEN -s
        ELSE IF Sign(d) # s THEN Sign(d)
        ELSE CHOOSE u \in {-Sign(d) * CompareInt(mq, Abs(d)) :
                             mq \in {IF build[2] THEN Times(m, Abs(q)) ELSE FlTimes(m, Abs(q)) :
                                       m \in {Multiplier(build, p, c)}}} : TRUE

Det(m) == RSub(RMul(m[1][1], m[2][2]), RMul(m[1][2], m[2][1]))
Singular(m) == m # NaNMat /\ Det(m)[1] = 0
IsIntMat(m) == \A i \in 1..2 : \A j \in 1..2 : m[i][j][2] = 1

(* The sign of the determinant the factorisation of an integer matrix      *)
(* gives: that of the row exchange (the larger entry of the first column   *)
(* becomes the pivot) times those of the two pivots.                       *)
FactorSign(build, m) ==
    LET a == m[1][1][1]
        b == m[1][2][1]
        c == m[2][1][1]
        d == m[2][2][1]
        exchange == Abs(c) > Abs(a)
    IN  IF exchange THEN -Sign(c) * SecondPivotSign(build, c, d, a, b)
        ELSE Sign(a) * SecondPivotSign(build, a, b, c, d)
(* defined where every build agrees *)
LUSign(m) ==
    CASE IsIntMat(m) ->
        CHOOSE s \in {-1, 0, 1} : \A build \in Builds : FactorSign(build, m) = s
(* computed once for the singular covariance matrices of the sessions *)
LUKept == {m \in {np_cov(Line), np_cov(Thin)} : Singular(m)}
LUTable == [m \in LUKept |-> LUSign(m)]

(* A determinant of the size of the rounding error, of sign s; <<0, 1>> is *)
(* 0.0                                                                     *)
RoundOff(s) == IF s = 0 THEN RInt(0) ELSE <<s, 0>>
(* An inverse whose entries are of the order of 1 / rounding error *)
HugeMat == << <<RoundOff(1), RoundOff(1)>>, <<RoundOff(1), RoundOff(1)>> >>

np_linalg_det(m) ==
    IF m = NaNMat THEN RNaN
    ELSE IF Det(m)[1] # 0 THEN Det(m)
    ELSE RoundOff(LUTable[m])

(* np.linalg.inv raises LinAlgError("Singular matrix") when the            *)
(* factorisation meets a pivot that is exactly 0.0, and only then; det is  *)
(* the determinant the factorisation gives                                 *)
(* the off-diagonal entries keep their sign *)
Inverse_sign(m, det) ==
    IF m = NaNMat THEN Returned(NaNMat)
    ELSE IF det[1] = 0 THEN Raised("LinAlgError", m)
    ELSE IF det[2] = 0 THEN Returned(HugeMat)
    ELSE Returned(<< <<RDiv(m[2][2], det), RDiv(m[1][2], det)>>,
                     <<RDiv(m[2][1], det), RDiv(m[1][1], det)>> >>)
Inverse(m, det) ==
    IF m = NaNMat THEN Returned(NaNMat)
    ELSE IF det[1] = 0 THEN Raised("LinAlgError", m)
    ELSE IF det[2] = 0 THEN Returned(HugeMat)
    ELSE Returned(<< <<RDiv(m[2][2], det), RDiv(RNeg(m[1][2]), det)>>,
                     <<RDiv(RNeg(m[2][1]), det), RDiv(m[1][1], det)>> >>)

np_linalg_inv(m) == Inverse(m, np_linalg_det(m))

(***************************************************************************)
(* Squared Mahalanobis distance and the discriminant function              *)
(*   d_k(x) = ln P(C_k) - 1/2 [ ln |Sigma_k| + D_k^2(x) ]                  *)
(* The body of discriminant_function is the exercise's blank; its value is *)
(* the function the notebook derives and its test cell expects.            *)
(***************************************************************************)
Mahalanobis2(x, mu, covinv) == Dot(VSub(x, mu), MatVec(covinv, VSub(x, mu)))

(* the half applied to the distance only *)
d_k_half(x, mu, cov, covinv, prior) ==
    FSub(FSub(np_log(prior), np_log(np_linalg_det(cov))),
         FHalf(FOfRat(Mahalanobis2(x, mu, covinv))))

d_k(x, mu, cov, covinv, prior) ==
    FSub(np_log(prior),
         FHalf(FAdd(np_log(np_linalg_det(cov)), FOfRat(Mahalanobis2(x, mu, covinv)))))

(* features - mu under numpy's broadcasting: a vector of one component is   *)
(* repeated to the length of mu, any other length that differs raises      *)
(* ValueError ("operands could not be broadcast together")                 *)
np_broadcast(features, mu) ==
    IF Len(features) = Len(mu) THEN Returned(features)
    ELSE IF Len(features) = 1 THEN Returned([i \in 1..Len(mu) |-> features[1]])
    ELSE Raised("ValueError", features)

(* dx and its return, from covinv and features - mu; an exception raised   *)
(* by either leaves the function                                           *)
Return_dx(covinv, x, mu, cov, prior) ==
    IF covinv.err # "none" THEN Raised(covinv.err, FZero)
    ELSE IF x.err # "none" THEN Raised(x.err, FZero)
    ELSE Returned(d_k(x.val, mu, cov, covinv.val, prior))

discriminant_function(features, mu, cov, prior) ==
    Return_dx(np_linalg_inv(cov), np_broadcast(features, mu), mu, cov, prior)

(* d_k(x) = -(x - mu)^T (x - mu) = -||x - mu||^2 *)
(* only the first feature is used *)
discriminant_function_isotropic_first(features, mu) ==
    LET x == np_broadcast(features, mu)
    IN  IF x.err # "none" THEN Raised(x.err, FZero)
        ELSE Returned(FOfRat(RNeg(RMul(RSub(x.val[1], mu[1]), RSub(x.val[1], mu[1])))))

(* the squared distance, not negated *)
discriminant_function_isotropic_pos(features, mu) ==
    LET x == np_broadcast(features, mu)
    IN  IF x.err # "none" THEN Raised(x.err, FZero)
        ELSE Returned(FOfRat(Dot(VSub(x.val, mu), VSub(x.val, mu))))

discriminant_function_isotropic(features, mu) ==
    LET x == np_broadcast(features, mu)
    IN  IF x.err # "none" THEN Raised(x.err, FZero)
        ELSE Returned(FOfRat(RNeg(Dot(VSub(x.val, mu), VSub(x.val, mu)))))

(* Python's max(list): the first of the largest items *)
RECURSIVE PyMaxFrom(_, _, _)
PyMaxFrom(s, i, best) ==
    IF i > Len(s) THEN best
    ELSE PyMaxFrom(s, i + 1, IF FLess(best, s[i]) THEN s[i] ELSE best)
(* max replaced by min *)
RECURSIVE PyMinFrom(_, _, _)
PyMinFrom(s, i, best) ==
    IF i > Len(s) THEN best
    ELSE PyMinFrom(s, i + 1, IF FLess(s[i], best) THEN s[i] ELSE best)
PyMax_min(s) == PyMinFrom(s, 2, s[1])
PyMax(s) == PyMaxFrom(s, 2, s[1])

(* a decision that gives up when the top score is shared *)
Decide_unique(triangle, circle, square) ==
    LET classification == PyMaxFrom(<<triangle, circle, square>>, 2, triangle)
        count == Cardinality({i \in 1..3 : FEq(<<triangle, circle, square>>[i], classification)})
    IN  IF count > 1 THEN "rejected"
        ELSE IF FEq(classification, triangle) THEN "triangle"
        ELSE IF FEq(classification, circle) THEN "circle"
        ELSE "square"

(* the chain of tests taken from the last class to the first *)
Decide_reversed(triangle, circle, square) ==
    LET classification == PyMaxFrom(<<triangle, circle, square>>, 2, triangle)
    IN  IF FEq(classification, square) THEN "square"
        ELSE IF FEq(classification, circle) THEN "circle"
        ELSE "triangle"

(* the if / elif / else that prints the label *)
PrintedLabel(classification, triangle, circle) ==
    IF FEq(classification, triangle) THEN "triangle"
    ELSE IF FEq(classification, circle) THEN "circle"
    ELSE "square"

Decide(triangle, circle, square) ==
    LET classification == PyMax(<<triangle, circle, square>>)
    IN  PrintedLabel(classification, triangle, circle)

(***************************************************************************)
(* The notebook as a state machine: the kernel's global names, and one     *)
(* action per cell run or function call.  The .npy files on disk do not    *)
(* change during a session.                                                *)
(***************************************************************************)
Labels == {"triangle", "circle", "square"}
NoScore == Raised("unset", FZero)
NoCall == [fn |-> "none", hu |-> Vec(0, 0), est |-> FALSE, test |-> FALSE, out |-> "none",
           cls |-> "none", score |-> NoScore]


(* The global names each cell binds; reading an unbound name raises NameError *)
EstimationNames == {"train", "cov_", "mean_"}
TestNames == {"f", "mu", "cov", "prior", "d"}

Scores(triangle, circle, square) ==
    IF triangle.err # "none" THEN triangle.err
    ELSE IF circle.err # "none" THEN circle.err
    ELSE IF square.err # "none" THEN square.err
    ELSE Decide(triangle.val, circle.val, square.val)

(* the prior of the circle class squared *)
QuadraticLabel_unequal(hu, m, c, prior) ==
    LET triangle == discriminant_function(hu, m["triangle"], c["triangle"], prior)
        circle == discriminant_function(hu, m["circle"], c["circle"], RMul(prior, prior))
        square == discriminant_function(hu, m["square"], c["square"], prior)
    IN  Scores(triangle, circle, square)
QuadraticLabel(hu, m, c, prior) ==
    LET triangle == discriminant_function(hu, m["triangle"], c["triangle"], prior)
        circle == discriminant_function(hu, m["circle"], c["circle"], prior)
        square == discriminant_function(hu, m["square"], c["square"], prior)
    IN  Scores(triangle, circle, square)

(* the covariance passed is the global cov of the test cell *)
classify_image_global(hu) ==
    IF ~({"mean_", "cov"} \subseteq bound) THEN "NameError"
    ELSE LET prior == Rat(1, 3) IN QuadraticLabel(hu, means, [k \in Labels |-> g_cov], prior)

classify_image(hu) ==
    IF ~({"mean_", "cov_"} \subseteq bound) THEN "NameError"
    ELSE LET prior == Rat(1, 3) IN QuadraticLabel(hu, means, covs, prior)

IsotropicLabel(hu, m) ==
    LET triangle == discriminant_function_isotropic(hu, m["triangle"])
        circle == discriminant_function_isotropic(hu, m["circle"])
        square == discriminant_function_isotropic(hu, m["square"])
    IN  Scores(triangle, circle, square)

classify_image_isotropic(hu) ==
    IF "mean_" \notin bound THEN "NameError" ELSE IsotropicLabel(hu, means)

NoVec == Vec(0, 0)
NoMat == <<NoVec, NoVec>>

(* The call sites of classify_image and the frame of a call: the line it   *)
(* has reached and its local names                                         *)
Sites == {"first", "second"}
NoFrame == [pc |-> "idle", arg |-> NoVec, out |-> "none",
            hu |-> NoVec, triangle |-> FZero, circle |-> FZero, square |-> FZero,
            classification |-> FZero]

NoImage == <<>>

(* a fresh kernel: no name bound, no call made *)
FreshKernel ==
    /\ bound = {}
    /\ train = [k \in Labels |-> <<>>]
    /\ covs = [k \in Labels |-> NoMat]
    /\ means = [k \in Labels |-> NoVec]
    /\ g_f = NoVec /\ g_mu = NoVec /\ g_cov = NoMat /\ g_prior = RInt(0)
    /\ g_d = NoScore
    /\ last = NoCall /\ pinned = NoCall
    /\ calls = [s \in Sites |-> NoFrame]
Fresh ==
    /\ FreshKernel
    /\ cv2 = "none" /\ image_bgr = NoImage /\ image_YCrCb = NoImage /\ image_gray = NoImage


Init == hu_files \in [Labels -> TrainingSets] /\ Fresh

Assignment1a ==
    /\ train' = hu_files
    /\ covs' = [k \in Labels |-> np_cov(hu_files[k])]
    /\ means' = [k \in Labels |-> np_mean(hu_files[k])]
    /\ bound' = bound \cup EstimationNames
    /\ UNCHANGED <<appendix, hu_files, g_f, g_mu, g_cov, g_prior, g_d, last, pinned, calls>>

TestCell ==
    /\ g_f' = <<Rat(5, 10), Rat(6, 10)>>
    /\ g_mu' = <<Rat(7, 10), Rat(9, 10)>>
    /\ g_cov' = << <<Rat(7, 10), Rat(3, 10)>>, <<Rat(3, 10), Rat(9, 10)>> >>
    /\ g_prior' = Rat(1, 2)
    /\ g_d' = discriminant_function(g_f', g_mu', g_cov', g_prior')
    /\ bound' = bound \cup TestNames
    /\ UNCHANGED <<appendix, hu_files, train, covs, means, last, pinned, calls>>

Inputs == Grid \cup (IF "mean_" \in bound THEN {means[k] : k \in Labels} ELSE {})

(* prior = 1/3 bound as a global name by the call *)
Record_global(call) ==
    /\ last' = call
    /\ pinned' = pinned
    /\ g_prior' = Rat(1, 3)
    /\ bound' = bound \cup {"prior"}
    /\ UNCHANGED <<appendix, hu_files, train, covs, means, g_f, g_mu, g_cov, g_d, calls>>
Record(call) ==
    /\ last' = call
    /\ pinned' = pinned
    /\ UNCHANGED <<appendix, hu_files, bound, train, covs, means, g_f, g_mu, g_cov, g_prior, g_d, calls>>

CallClassifyImage ==
    \E hu \in Inputs :
        Record([fn |-> "classify_image", hu |-> hu, est |-> "mean_" \in bound,
                test |-> "d" \in bound, out |-> classify_image(hu),
                cls |-> "none", score |-> NoScore])

CallClassifyImageIsotropic ==
    \E hu \in Inputs :
        Record([fn |-> "classify_image_isotropic", hu |-> hu, est |-> "mean_" \in bound,
                test |-> "d" \in bound, out |-> classify_image_isotropic(hu),
                cls |-> "none", score |-> NoScore])

Next ==
    \/ Assignment1a
    \/ TestCell
    \/ CallClassifyImage
    \/ CallClassifyImageIsotropic

Spec == Init /\ [][Next]_vars

(***************************************************************************)
(* Parts of a session: the cells of Assignments 1a and 1b alone, and with  *)
(* the calls of one of the two classifiers.                                *)
(***************************************************************************)
NextEstimation == Assignment1a \/ TestCell
SpecEstimation == Init /\ [][NextEstimation]_vars

NextQuadratic == Assignment1a \/ TestCell \/ CallClassifyImage
SpecQuadratic == Init /\ [][NextQuadratic]_vars

NextIsotropic == Assignment1a \/ TestCell \/ CallClassifyImageIsotropic
SpecIsotropic == Init /\ [][NextIsotropic]_vars

(***************************************************************************)
(* Sessions in which an earlier call is kept, to compare a later call on   *)
(* the same input with it.                                                 *)
(***************************************************************************)
Sessions ==
    {[triangle |-> Wide, circle |-> SqB, square |-> SqC],
     [triangle |-> SqA, circle |-> SqB, square |-> SqC],
     [triangle |-> SqA, circle |-> Line, square |-> Wide]}
InitSession == hu_files \in Sessions /\ Fresh
Pin ==
    /\ last # NoCall /\ pinned = NoCall
    /\ pinned' = last
    /\ UNCHANGED <<appendix, hu_files, bound, train, covs, means, g_f, g_mu, g_cov, g_prior, g_d, last,
                   calls>>
NextSession == Next \/ Pin
SpecSession == InitSession /\ [][NextSession]_vars

(***************************************************************************)
(* Calls of the two discriminant functions from a cell, as the test cell   *)
(* makes one, on the model of a class and with the prior of                *)
(* classify_image; the feature vector may have one or three components.    *)
(***************************************************************************)
Features == Inputs \cup {<<RInt(1)>>, <<RInt(0), RInt(1), RInt(1)>>}

CallDiscriminantFunction ==
    \E features \in Features, k \in Labels :
        Record([fn |-> "discriminant_function", hu |-> features, est |-> "mean_" \in bound,
                test |-> "d" \in bound, out |-> "none", cls |-> k,
                score |-> IF ~({"mean_", "cov_"} \subseteq bound) THEN Raised("NameError", FZero)
                          ELSE discriminant_function(features, means[k], covs[k], Rat(1, 3))])

CallDiscriminantFunctionIsotropic ==
    \E features \in Features, k \in Labels :
        Record([fn |-> "discriminant_function_isotropic", hu |-> features,
                est |-> "mean_" \in bound, test |-> "d" \in bound, out |-> "none", cls |-> k,
                score |-> IF "mean_" \notin bound THEN Raised("NameError", FZero)
                          ELSE discriminant_function_isotropic(features, means[k])])

NextCalls ==
    \/ Assignment1a
    \/ CallClassifyImage
    \/ CallClassifyImageIsotropic
    \/ CallDiscriminantFunction
    \/ CallDiscriminantFunctionIsotropic

(* Sessions on training arrays of every kind: a class of one image, and    *)
(* classes of two images, whose covariance is singular                     *)
CallSessions ==
    {[triangle |-> SqA, circle |-> SqB, square |-> SqC],
     [triangle |-> SqA, circle |-> SqA, square |-> Wide],
     [triangle |-> One, circle |-> SqB, square |-> SqC],
     [triangle |-> SqA, circle |-> One, square |-> SqC],
     [triangle |-> SqC, circle |-> SqB, square |-> One],
     [triangle |-> Thin, circle |-> SqB, square |-> SqC],
     [triangle |-> SqA, circle |-> Thin, square |-> SqC],
     [triangle |-> SqA, circle |-> SqB, square |-> Line]}
InitCalls == hu_files \in CallSessions /\ Fresh
SpecCalls == InitCalls /\ [][NextCalls]_vars

(***************************************************************************)
(* classify_image line by line, called from several sites whose steps      *)
(* interleave.  The names assigned in the function are local to the call:  *)
(* each call has a frame of its own.                                       *)
(***************************************************************************)
(* one frame for all the calls *)
Frame_shared(s) == "first"
Frame(s) == s

Local(s) == calls[Frame(s)]
Others == <<appendix, hu_files, bound, train, covs, means, g_f, g_mu, g_cov, g_prior, g_d, last, pinned>>
Exit(s, text) == [calls EXCEPT ![s].pc = "done", ![s].out = text]

Enter ==
    \E s \in Sites, hu \in Inputs :
        /\ calls[s].pc = "idle"
        /\ calls' = [calls EXCEPT ![s].arg = hu, ![Frame(s)].hu = hu, ![s].pc = "triangle"]
        /\ UNCHANGED Others

ScoreTriangle ==
    \E s \in Sites :
        /\ calls[s].pc = "triangle"
        /\ calls' =
             IF ~({"mean_", "cov_"} \subseteq bound) THEN Exit(s, "NameError")
             ELSE LET prior == Rat(1, 3)
                      triangle == discriminant_function(Local(s).hu, means["triangle"],
                                                        covs["triangle"], prior)
                  IN  IF triangle.err # "none" THEN Exit(s, triangle.err)
                      ELSE [calls EXCEPT ![Frame(s)].triangle = triangle.val,
                                         ![s].pc = "circle"]
        /\ UNCHANGED Others

ScoreCircle ==
    \E s \in Sites :
        /\ calls[s].pc = "circle"
        /\ calls' =
             IF ~({"mean_", "cov_"} \subseteq bound) THEN Exit(s, "NameError")
             ELSE LET prior == Rat(1, 3)
                      circle == discriminant_function(Local(s).hu, means["circle"],
                                                      covs["circle"], prior)
                  IN  IF circle.err # "none" THEN Exit(s, circle.err)
                      ELSE [calls EXCEPT ![Frame(s)].circle = circle.val, ![s].pc = "square"]
        /\ UNCHANGED Others

ScoreSquare ==
    \E s \in Sites :
        /\ calls[s].pc = "square"
        /\ calls' =
             IF ~({"mean_", "cov_"} \subseteq bound) THEN Exit(s, "NameError")
             ELSE LET prior == Rat(1, 3)
                      square == discriminant_function(Local(s).hu, means["square"],
                                                      covs["square"], prior)
                  IN  IF square.err # "none" THEN Exit(s, square.err)
                      ELSE [calls EXCEPT ![Frame(s)].square = square.val, ![s].pc = "max"]
        /\ UNCHANGED Others

Maximum ==
    \E s \in Sites :
        /\ calls[s].pc = "max"
        /\ calls' = [calls EXCEPT
                       ![Frame(s)].classification =
                           PyMax(<<Local(s).triangle, Local(s).circle, Local(s).square>>),
                       ![s].pc = "print"]
        /\ UNCHANGED Others

PrintLabel ==
    \E s \in Sites :
        /\ calls[s].pc = "print"
        /\ calls' = Exit(s, PrintedLabel(Local(s).classification, Local(s).triangle,
                                         Local(s).circle))
        /\ UNCHANGED Others

(* the call is over: its frame is discarded, and it becomes the latest call *)
Return ==
    \E s \in Sites :
        /\ calls[s].pc = "done"
        /\ calls' = [calls EXCEPT ![s] = NoFrame]
        /\ last' = [fn |-> "classify_image", hu |-> calls[s].arg,
                    est |-> calls[s].out # "NameError", test |-> "d" \in bound,
                    out |-> calls[s].out, cls |-> "none", score |-> NoScore]
        /\ UNCHANGED <<appendix, hu_files, bound, train, covs, means, g_f, g_mu, g_cov, g_prior, g_d,
                       pinned>>

NextConcurrent ==
    \/ Assignment1a
    \/ Enter
    \/ ScoreTriangle
    \/ ScoreCircle
    \/ ScoreSquare
    \/ Maximum
    \/ PrintLabel
    \/ Return
(* sessions whose calls end in each of the labels and in LinAlgError *)
ConcurrentSessions ==
    {[triangle |-> SqA, circle |-> SqB, square |-> SqC],
     [triangle |-> SqA, circle |-> Line, square |-> Wide]}
InitConcurrent == hu_files \in ConcurrentSessions /\ Fresh
SpecConcurrent == InitConcurrent /\ [][NextConcurrent]_vars

(***************************************************************************)
(* The appendix on color spaces: cv2.cvtColor on an 8-bit image, a pixel   *)
(* <<b, g, r>> at a time, in the integer arithmetic of OpenCV.  The        *)
(* Y'CrCb conversion weighs the bands with coefficients scaled by          *)
(* 2^yuv_shift; the grayscale conversion does the same in the older        *)
(* releases and uses coefficients scaled by 2^gray_shift in the later      *)
(* ones.  The image is read before the conversion cells run; one pixel     *)
(* stands for the image.                                                   *)
(***************************************************************************)
yuv_shift == 14
gray_shift == 15
R2Y == 4899
G2Y == 9617
B2Y == 1868
YCRI == 11682
YCBI == 9241
RY15 == 9798
GY15 == 19235
BY15 == 3735

CV_DESCALE(x, n) == (x + 2 ^ (n - 1)) \div 2 ^ n
saturate_cast(v) == IF v < 0 THEN 0 ELSE IF v > 255 THEN 255 ELSE v

cvtColor_BGR2YCrCb(p) ==
    LET Y == CV_DESCALE(p[1] * B2Y + p[2] * G2Y + p[3] * R2Y, yuv_shift)
        delta == 128 * 2 ^ yuv_shift
        Cr == CV_DESCALE((p[3] - Y) * YCRI + delta, yuv_shift)
        Cb == CV_DESCALE((p[1] - Y) * YCBI + delta, yuv_shift)
    IN  <<saturate_cast(Y), saturate_cast(Cr), saturate_cast(Cb)>>

(* the mean of the three bands *)
cvtColor_BGR2GRAY_mean(build, p) == (p[1] + p[2] + p[3]) \div 3
cvtColor_BGR2GRAY(build, p) ==
    IF build = "gray_shift"
    THEN saturate_cast(CV_DESCALE(p[1] * BY15 + p[2] * GY15 + p[3] * RY15, gray_shift))
    ELSE saturate_cast(CV_DESCALE(p[1] * B2Y + p[2] * G2Y + p[3] * R2Y, yuv_shift))

Cv2Builds == {"yuv_shift", "gray_shift"}
LevelMax == 3
Levels == {4 * i : i \in 0..LevelMax} \cup {255}
Pixels == {<<b, g, r>> : b \in Levels, g \in Levels, r \in Levels}

InitColor ==
    /\ hu_files = [k \in Labels |-> <<>>]
    /\ FreshKernel
    /\ cv2 \in Cv2Builds
    /\ image_bgr \in Pixels
    /\ image_YCrCb = NoImage /\ image_gray = NoImage

ConvertYCrCb ==
    /\ image_YCrCb' = cvtColor_BGR2YCrCb(image_bgr)
    /\ UNCHANGED <<cv2, image_bgr, image_gray, chapter7>>

ConvertGray ==
    /\ image_gray' = <<cvtColor_BGR2GRAY(cv2, image_bgr)>>
    /\ UNCHANGED <<cv2, image_bgr, image_YCrCb, chapter7>>

NextColor == ConvertYCrCb \/ ConvertGray
SpecColor == InitColor /\ [][NextColor]_vars

(***************************************************************************)
(* The scores behind a recorded call, and the names used by the            *)
(* properties below.                                                       *)
(***************************************************************************)
Exceptions == {"NameError", "LinAlgError"}
Called(call) == call.fn # "none" /\ call.est
ScoreOf(call, k) ==
    IF call.fn = "classify_image"
    THEN discriminant_function(call.hu, means[k], covs[k], Rat(1, 3))
    ELSE discriminant_function_isotropic(call.hu, means[k])
AllScored(call) == \A k \in Labels : ScoreOf(call, k).err = "none"
Beats(call, i, j) == FLess(ScoreOf(call, j).val, ScoreOf(call, i).val)

Tied(call) ==
    \E i, j \in Labels :
        /\ i # j /\ ScoreOf(call, i).val = ScoreOf(call, j).val
        /\ \A k \in Labels : ~Beats(call, k, i)

C5_NeverRejects ==
    (Called(last) /\ (last.fn = "classify_image" => \A k \in Labels : np_linalg_det(covs[k])[1] # 0))
        => last.out \in Labels

C5_Witness ==
    /\ Called(last) /\ last.fn = "classify_image" /\ AllScored(last) /\ Tied(last)
    /\ last.out \in Labels

(***************************************************************************)
(* C2: discriminant_function(x, mu, cov, prior) is                         *)
(*   ln(prior) - 1/2 [ ln det(cov) + (x - mu)^T cov^-1 (x - mu) ]          *)
(* for an invertible cov, and on the test cell's input its value is within *)
(* 1e-9 of the expected output -0.4433874441813701.  The right-hand side   *)
(* is evaluated without the inverse matrix: the quadratic form is          *)
(* (c22 u1^2 - (c12 + c21) u1 u2 + c11 u2^2) / det(cov) for u = x - mu.    *)
(***************************************************************************)
ExpectedD == Fix(TRUE, <<0, 443, 387, 444, 181, 370>>)
Tolerance == <<0, 0, 0, 1, 0, 0>>
Within(a, b, tol) == LET diff == FSub(a, b).mag IN diff = tol \/ MagLess(diff, tol)

QuadraticForm(x, mu, cov) ==
    LET u == VSub(x, mu)
        num == RSub(RAdd(RMul(cov[2][2], RMul(u[1], u[1])), RMul(cov[1][1], RMul(u[2], u[2]))),
                    RMul(RAdd(cov[1][2], cov[2][1]), RMul(u[1], u[2])))
    IN  RDiv(num, RSub(RMul(cov[1][1], cov[2][2]), RMul(cov[1][2], cov[2][1])))
Formula(x, mu, cov, prior) ==
    FSub(np_log(prior),
         FHalf(FAdd(np_log(np_linalg_det(cov)),
                    FOfRat(QuadraticForm(x, mu, cov)))))

DensityCompare(x, mu_i, cov_i, mu_j, cov_j) ==
    LET Di == QuadraticForm(x, mu_i, cov_i)
        Dj == QuadraticForm(x, mu_j, cov_j)
        gap == RSub(Di, Dj)
        e == ExpNegMag(MagOfRat(Abs(gap[1]), gap[2]))
        one == MagOfInt(1)
        det_i == np_linalg_det(cov_i)
        det_j == np_linalg_det(cov_j)
        pj == MagMulSmall(IF gap[1] > 0 THEN one ELSE e, det_i[1] * det_j[2])
        pi == MagMulSmall(IF gap[1] > 0 THEN e ELSE one, det_j[1] * det_i[2])
    IN  IF MagLess(pj, pi) THEN 1 ELSE IF MagLess(pi, pj) THEN -1 ELSE 0
DensityOf(call, i, j) ==
    DensityCompare(call.hu, means[i], covs[i], means[j], covs[j])
FCompare(a, b) == IF FLess(b, a) THEN 1 ELSE IF FLess(a, b) THEN -1 ELSE 0
ClassPairs == {<<"triangle", "circle">>, <<"triangle", "square">>, <<"circle", "square">>}

theta == Rat(1, 10)
Thetas == {Rat(1, 100), theta, Rat(1, 2)}
MagMax(a, b) == IF MagLess(a, b) THEN b ELSE a
MagMin(a, b) == IF MagLess(a, b) THEN a ELSE b
TopTwoGap(call) ==
    LET d == <<ScoreOf(call, "triangle").val, ScoreOf(call, "circle").val,
               ScoreOf(call, "square").val>>
        top == PyMaxFrom(d, 2, d[1])
        e == <<ExpNegMag(FSub(top, d[1]).mag), ExpNegMag(FSub(top, d[2]).mag),
               ExpNegMag(FSub(top, d[3]).mag)>>
        first == MagMax(MagMax(e[1], e[2]), e[3])
        second == MagMax(MagMin(e[1], e[2]), MagMin(MagMax(e[1], e[2]), e[3]))
    IN  <<MagSub(first, second), MagAdd(MagAdd(e[1], e[2]), e[3])>>
Below(gap, th) == MagLess(MagMulSmall(gap[1], th[2]), MagMulSmall(gap[2], th[1]))
FirstMax(call) ==
    CHOOSE k \in Labels :
        /\ \A j \in Labels : ~Beats(call, j, k)
        /\ k # "triangle" => \E j \in Labels : Beats(call, j, "triangle")
        /\ k = "square" => \E j \in Labels : Beats(call, j, "circle")

SepMin == 2 * 3
MeanDistance(i, j) == QuadraticForm(means[i], means[j], covs[j])
WellSeparated ==
    \A i, j \in Labels : i # j => ~RLess(MeanDistance(i, j), RInt(SepMin))
AtMean(call, k) ==
    Called(call) /\ call.fn = "classify_image" /\ AllScored(call) /\ call.hu = means[k]
DetMargin(k, j) ==
    FLess(LnReduce(np_linalg_det(covs[k])[1] * np_linalg_det(covs[j])[2],
                   np_linalg_det(covs[k])[2] * np_linalg_det(covs[j])[1], 0),
          FOfRat(MeanDistance(k, j)))

SharedIsotropic ==
    LET sigma2 == covs["triangle"][1][1]
    IN  /\ sigma2[1] > 0
        /\ \A k \in Labels : covs[k] = << <<sigma2, RInt(0)>>, <<RInt(0), sigma2>> >>
QuadScore(hu, k) == discriminant_function(hu, means[k], covs[k], Rat(1, 3)).val
IsoScore(hu, k) == discriminant_function_isotropic(hu, means[k]).val

Rotation(c, s, h) == << <<Rat(c, h), Rat(-s, h)>>, <<Rat(s, h), Rat(c, h)>> >>
Rotations ==
    {Rotation(0, 1, 1), Rotation(-1, 0, 1), Rotation(0, -1, 1),
     Rotation(3, 4, 5), Rotation(3, -4, 5), Rotation(4, 3, 5), Rotation(-4, 3, 5)}

Column(m, a) == [i \in 1..Len(m) |-> m[i][a]]
Products(m, a, b) == [i \in 1..Len(m) |-> RMul(m[i][a], m[i][b])]

C11_SingularRaises ==
    /\ (last.fn = "discriminant_function" /\ last.est /\ Singular(covs[last.cls]))
           => last.score.err = "LinAlgError"
    /\ (last.fn = "classify_image" /\ last.est /\ \E k \in Labels : Singular(covs[k]))
           => last.out = "LinAlgError"

(***************************************************************************)
(* C12: Assignment 1a binds no covariance and no mean when the array of    *)
(* some class holds fewer than two feature vectors.                        *)
(***************************************************************************)
C12_InsufficientSamples ==
    (\E k \in Labels : Len(hu_files[k]) < 2) => bound \cap {"cov_", "mean_"} = {}

(***************************************************************************)
(* C13: a call of discriminant_function or discriminant_function_isotropic *)
(* with a feature vector whose length is not that of the class mean raises *)
(* an error and returns no score.                                          *)
(***************************************************************************)
C13_LengthMismatchRaises ==
    (/\ last.fn \in {"discriminant_function", "discriminant_function_isotropic"}
     /\ last.est
     /\ Len(last.hu) # Len(means[last.cls]))
        => last.score.err \in {"ValueError", "LinAlgError"}

(***************************************************************************)
(* C14: once Assignment 1a has produced no covariance for some class (the  *)
(* matrix np.cov returns is nan), classify_image prints no label.          *)
(***************************************************************************)
C14_NoLabelAfterFailedEstimation ==
    (last.fn = "classify_image" /\ last.est /\ \E k \in Labels : covs[k] = NaNMat)
        => last.out \notin Labels

(***************************************************************************)
(* C15: a call of discriminant_function, discriminant_function_isotropic,  *)
(* classify_image or classify_image_isotropic rebinds no global name and   *)
(* changes neither the training arrays nor any class's mean or covariance, *)
(* nor the prior, mean and covariance of the test cell.                    *)
(***************************************************************************)
Globals == <<hu_files, bound, train, covs, means, g_f, g_mu, g_cov, g_prior, g_d>>

C15_ModelsReadOnly == [][last' # last => UNCHANGED Globals]_vars

C15_Witness ==
    /\ last.fn = "discriminant_function" /\ last.est /\ last.score.err = "none"
    /\ pinned = NoCall
    /\ train = hu_files
    /\ covs = [k \in Labels |-> np_cov(hu_files[k])]
    /\ means = [k \in Labels |-> np_mean(hu_files[k])]

(***************************************************************************)
(* C16: whatever the interleaving of the steps of the calls in progress, a *)
(* call of classify_image ends with what classify_image prints or raises   *)
(* for its argument when it runs alone.                                    *)
(***************************************************************************)
C16_SameAsAlone ==
    [][\A s \in Sites :
          (calls[s].pc # "done" /\ calls'[s].pc = "done")
              => calls'[s].out = classify_image(calls[s].arg)]_vars

C16_Witness ==
    /\ calls["first"].pc = "print" /\ calls["second"].pc = "circle"
    /\ calls["first"].arg # calls["second"].arg
    /\ classify_image(calls["first"].arg) = "triangle"
    /\ classify_image(calls["second"].arg) = "square"

(***************************************************************************)
(* The label of a feature vector as the training arrays alone determine    *)
(* it.                                                                     *)
(***************************************************************************)
LabelFromFiles(fn, hu) ==
    IF fn = "classify_image"
    THEN QuadraticLabel(hu, [k \in Labels |-> np_mean(hu_files[k])],
                        [k \in Labels |-> np_cov(hu_files[k])], Rat(1, 3))
    ELSE IsotropicLabel(hu, [k \in Labels |-> np_mean(hu_files[k])])

C18_FirstOfTheGreatest ==
    (Called(last) /\ last.fn \in {"classify_image", "classify_image_isotropic"}
        /\ AllScored(last))
        => /\ last.out \in Labels
           /\ \A k \in Labels : ~Beats(last, k, last.out)
           /\ last.out = "circle" => Beats(last, "circle", "triangle")
           /\ last.out = "square" =>
                  Beats(last, "square", "triangle") /\ Beats(last, "square", "circle")

(***************************************************************************)
(* C19: with the same prior for the three classes, the label of            *)
(* classify_image is the one it prints with the prior 1/3, whatever the    *)
(* common prior in (0, 1].                                                 *)
(***************************************************************************)
Priors == {Rat(1, 1), Rat(1, 2), Rat(1, 10)}

Distance2(u, v) == Dot(VSub(u, v), VSub(u, v))

Adjacent(p) ==
    {q \in {<<p[1] + d[1], p[2] + d[2], p[3] + d[3]>> : d \in {-1, 0, 1} \X {-1, 0, 1} \X {-1, 0, 1}} :
        q # p /\ \A i \in 1..3 : q[i] \in 0..255}
Converted == image_YCrCb # NoImage /\ image_gray # NoImage
SharesGray == \E q \in Adjacent(image_bgr) : cvtColor_BGR2GRAY(cv2, q) = image_gray[1]

====
